---- MODULE Spec2Model ----
(***************************************************************************)
(* Model of the HedgeDoc realtime editor backend:                          *)
(*   RealtimeEditorGateway (handleConnection, getOrCreateRealtimeNote,     *)
(*   handleDisconnect, handleMessageSync/Awareness/HedgeDoc),              *)
(*   RealtimeNote, WebsocketDoc, WebsocketAwareness and the message        *)
(*   listener of YjsWebsocketAdapter.                                      *)
(*                                                                         *)
(* The server is a single threaded event loop: every synchronous stretch   *)
(* of a handler is one atomic action, and an async handler is cut at the   *)
(* awaits that wait for I/O (session/user/note/permission lookups, the     *)
(* note content fetch).  What follows the last such await of a connect     *)
(* (the map lookup or the registration, the indexing of the connection,    *)
(* the readyState test and connectClient) runs before any socket event is  *)
(* served and is one action.                                               *)
(*                                                                         *)
(* A document is the set of client operations applied on top of its        *)
(* initial content; an awareness is the set of client ids it has a clock   *)
(* for and the set of ids it holds a state for.                            *)
(***************************************************************************)
EXTENDS Integers, Sequences, FiniteSets, TLC

\* ---- bounds ------------------------------------------------------------
NumClients == 2      \* websocket clients that ever connect
NumNotes   == 2      \* distinct note ids
NumOps     == 1      \* distinct CRDT operations clients may submit
NumAwIds   == 1      \* distinct awareness client ids

Clients  == 1..NumClients
NoteIds  == 1..NumNotes
Ops      == 1..NumOps
AwIds    == 1..NumAwIds
\* A RealtimeNote object is identified by the client whose connect built it;
\* 0 stands for undefined (no map entry).
Sessions == Clients
NoSession == 0

VARIABLES
  pc,                       \* position of handleConnection for each client
  checks,                   \* what the connect checks of each client answered
  readyState,               \* WebSocket.readyState of each client
  reqNote,                  \* note id the request url of a client resolves to
  noteIdToRealtimeNote,     \* gateway map noteId -> RealtimeNote
  connectionToRealtimeNote, \* gateway map WebSocket -> RealtimeNote
  realtimeNotes,            \* the RealtimeNote objects built so far
  controlledAwarenessIds,   \* WebsocketConnection.controlledAwarenessIds
  sent,                     \* frames sent by the handler that ran last, in order
  lastOp,                   \* what the handler that ran last was and saw
  emitted,                  \* document updates emitted so far, in order
  delivered                 \* frames handed to each connection so far, in order

vars == <<pc, checks, readyState, reqNote, noteIdToRealtimeNote,
          connectionToRealtimeNote, realtimeNotes, controlledAwarenessIds,
          sent, lastOp, emitted, delivered>>

\* ---- helpers -----------------------------------------------------------
Range(s) == {s[i] : i \in 1..Len(s)}

RemoveFromSeq(s, x) == SelectSeq(s, LAMBDA y : y # x)

\* A RealtimeNote that has not been constructed yet.
BlankNote ==
  [built |-> FALSE, noteId |-> 0, initialContent |-> 0, clients |-> <<>>,
   yDoc |-> {}, destroyed |-> 0, states |-> {}, known |-> {}]

NoChange == [added |-> {}, updated |-> {}, removed |-> {}]

\* What the handler that ran last was: its name, its client, the
\* RealtimeNote it worked on, whether the client was attached to it when the
\* handler started, the document update it applied, the awareness ids it
\* reported (for a disconnect: the ids the connection owned), how an
\* exception it raised ended ("none" when it raised none), the note content
\* it fetched (0 when it fetched none), the change the awareness reported
\* to its 'update' listener, and the response the sync reader produced
\* (<<>> when it produced none).
Op(name, c, s) ==
  [op |-> name, c |-> c, s |-> s, attached |-> FALSE, update |-> {},
   ids |-> {}, err |-> "none", content |-> 0, change |-> NoChange,
   response |-> <<>>]

\* ---- RealtimeNote ------------------------------------------------------
\* The item that getText('codemirror').insert(0, initialContent) puts into
\* a new document; client operations are positive, so no client has it.
Seed(initialContent) == 0 - initialContent

\* A RealtimeNote whose document is left empty.
NewRealtimeNote_unseeded(noteId, initialContent) ==
  [BlankNote EXCEPT !.built = TRUE, !.noteId = noteId,
                    !.initialContent = initialContent]

\* new RealtimeNote(noteId, initialContent): the WebsocketDoc constructor
\* inserts the content before it registers processYDocUpdate, so the insert
\* sends nothing.
NewRealtimeNote(noteId, initialContent) ==
  [BlankNote EXCEPT !.built = TRUE, !.noteId = noteId,
                    !.initialContent = initialContent,
                    !.yDoc = {Seed(initialContent)}]

hasConnections(rn) == Len(rn.clients) # 0

\* getConnections answering the connections of every RealtimeNote.
getConnections_ofEveryNote(rn) ==
  SelectSeq([i \in 1..NumClients |-> i],
            LAMBDA c : \E s \in Sessions : c \in Range(realtimeNotes[s].clients))

getConnections(rn) == rn.clients

\* getConnectionExcept without the exclusion of the origin.
getConnectionExcept_all(rn, origin) == rn.clients

getConnectionExcept(rn, origin) == RemoveFromSeq(rn.clients, origin)

connectClient(rn, client) ==
  [rn EXCEPT !.clients =
     IF client \in Range(rn.clients) THEN rn.clients
     ELSE Append(rn.clients, client)]

\* client.send(frame) for every connection of conns, in order
SendTo(conns, frame) ==
  [i \in 1..Len(conns) |-> [frame EXCEPT !.to = conns[i]]]

SyncFrame(kind, ops) ==
  [to |-> 0, type |-> "SYNC", kind |-> kind, ops |-> ops, aw |-> {}]

AwarenessFrame(entries) ==
  [to |-> 0, type |-> "AWARENESS", kind |-> "awareness", ops |-> {},
   aw |-> entries]

\* ---- WebsocketDoc ------------------------------------------------------
\* Inbound SYNC payloads: a state request (step1, carrying what the client
\* has), a state answer (step2) or an incremental update, or bytes the
\* sync reader cannot decode.
SyncMessages ==
  [kind : {"step1", "step2", "update"}, ops : SUBSET Ops]
    \cup {[kind |-> "malformed", ops |-> {}]}

\* decodeSyncMessage(decoder, doc, origin): feeds the payload to the sync
\* reader.  A step1 yields a step2 response with what the client misses; a
\* step2 or update is applied to the document, and the document emits one
\* 'update' event when the transaction changed it.
decodeSyncMessage(yDoc, msg) ==
  IF msg.kind = "step1"
  THEN [yDoc |-> yDoc, update |-> {},
        response |-> <<SyncFrame("step2", yDoc \ msg.ops)>>]
  ELSE [yDoc |-> yDoc \cup msg.ops, update |-> msg.ops \ yDoc,
        response |-> <<>>]

\* WebsocketDoc.processYDocUpdate(update, origin)
processYDocUpdate(rn, update, origin) ==
  SendTo(getConnectionExcept(rn, origin), SyncFrame("update", update))

\* processSyncMessage sending the response to every connection.
WebsocketDoc_processSyncMessage_responseToAll(rn, client, msg) ==
  LET d   == decodeSyncMessage(rn.yDoc, msg)
      rn2 == [rn EXCEPT !.yDoc = d.yDoc]
      fan == IF d.update # {} THEN processYDocUpdate(rn2, d.update, client)
             ELSE <<>>
      rsp == IF d.response # <<>>
             THEN SendTo(getConnections(rn2), d.response[1])
             ELSE <<>>
  IN  [rn |-> rn2, frames |-> fan \o rsp, update |-> d.update,
       response |-> d.response]

\* WebsocketDoc.processSyncMessage(client, decoder)
WebsocketDoc_processSyncMessage(rn, client, msg) ==
  LET d   == decodeSyncMessage(rn.yDoc, msg)
      rn2 == [rn EXCEPT !.yDoc = d.yDoc]
      fan == IF d.update # {} THEN processYDocUpdate(rn2, d.update, client)
             ELSE <<>>
      rsp == IF d.response # <<>> THEN SendTo(<<client>>, d.response[1])
             ELSE <<>>
  IN  [rn |-> rn2, frames |-> fan \o rsp, update |-> d.update,
       response |-> d.response]

\* ---- WebsocketAwareness ------------------------------------------------
\* One entry of an inbound awareness update: a client id, whether it carries
\* a state or null, and whether its clock lets the awareness take it (newer
\* than the clock held for the id, or equal while clearing a present state).
AwEntries == [id : AwIds, isNull : BOOLEAN, fresh : BOOLEAN]

\* Inbound AWARENESS payloads: entries for one or two distinct client ids.
AwarenessUpdates ==
  {u \in {{e, f} : e \in AwEntries, f \in AwEntries} :
     \A x \in u, y \in u : x.id = y.id => x = y}

\* applyAwarenessUpdate(awareness, update, origin): rn.known holds the ids
\* the awareness has a clock for, rn.states the ids with a state.
applyAwarenessUpdate(rn, entries) ==
  LET acc == {e \in entries : e.fresh}
      set == {e.id : e \in {x \in acc : ~x.isNull}}
      del == {e.id : e \in {x \in acc : x.isNull}}
  IN  [rn |-> [rn EXCEPT !.states = (@ \ del) \cup set,
                         !.known = @ \cup set \cup del],
       change |-> [added   |-> set \ rn.known,
                   updated |-> set \cap rn.known,
                   removed |-> del \cap rn.known]]

ChangedIds(chg) == chg.added \cup chg.updated \cup chg.removed

\* encodeAwarenessMessage(awareness, ids)
encodeAwarenessMessage(rn, ids) ==
  AwarenessFrame({[id |-> i, isNull |-> i \notin rn.states] : i \in ids})

\* handleAwarenessUpdate fanning out the way document updates are: to every
\* connection except the origin.
handleAwarenessUpdate_exceptOrigin(rn, ctl, chg, origin) ==
  [ctl |-> IF origin # 0
           THEN [ctl EXCEPT ![origin] = @ \cup chg.added \cup chg.removed]
           ELSE ctl,
   frames |-> SendTo(getConnectionExcept(rn, origin),
                     encodeAwarenessMessage(rn, ChangedIds(chg)))]

\* handleAwarenessUpdate recording every reported id, updated ones too.
handleAwarenessUpdate_ownsUpdated(rn, ctl, chg, origin) ==
  [ctl |-> IF origin # 0
           THEN [ctl EXCEPT ![origin] = @ \cup ChangedIds(chg)]
           ELSE ctl,
   frames |-> SendTo(getConnections(rn),
                     encodeAwarenessMessage(rn, ChangedIds(chg)))]

\* WebsocketAwareness.handleAwarenessUpdate({added, updated, removed}, origin)
\* origin = 0 stands for a null origin.
handleAwarenessUpdate(rn, ctl, chg, origin) ==
  [ctl |-> IF origin # 0
           THEN [ctl EXCEPT ![origin] = @ \cup chg.added \cup chg.removed]
           ELSE ctl,
   frames |-> SendTo(getConnections(rn),
                     encodeAwarenessMessage(rn, ChangedIds(chg)))]

\* WebsocketAwareness.processAwarenessMessage(client, decoder)
WebsocketAwareness_processAwarenessMessage(rn, ctl, client, entries) ==
  LET a == applyAwarenessUpdate(rn, entries)
  IN  IF ChangedIds(a.change) # {}
      THEN LET h == handleAwarenessUpdate(a.rn, ctl, a.change, client)
           IN  [rn |-> a.rn, ctl |-> h.ctl, frames |-> h.frames,
                change |-> a.change]
      ELSE [rn |-> a.rn, ctl |-> ctl, frames |-> <<>>, change |-> a.change]

\* ---- RealtimeEditorGateway ---------------------------------------------
\* client.close(): starts the closing handshake of an open socket.
close(rs, client) ==
  [rs EXCEPT ![client] = IF @ = "open" THEN "closing" ELSE @]

\* removeClient leaving the connection in the clients map.
removeClient_keepsConnection(rn, client) == rn

\* RealtimeNote.removeClient(client, onDestroy): drop the connection; when
\* none is left, websocketDoc.destroy() releases the document and the
\* awareness bound to it (their content is gone with them).
removeClient(rn, client) ==
  LET left == RemoveFromSeq(rn.clients, client)
  IN  IF Len(left) = 0
      THEN [rn EXCEPT !.clients = left, !.destroyed = @ + 1,
                      !.initialContent = 0,
                      !.yDoc = {}, !.states = {}, !.known = {}]
      ELSE [rn EXCEPT !.clients = left]

Init ==
  /\ pc = [c \in Clients |-> "new"]
  /\ checks = [c \in Clients |-> "pending"]
  /\ readyState = [c \in Clients |-> "open"]
  /\ reqNote = [c \in Clients |-> 0]
  /\ noteIdToRealtimeNote = [n \in NoteIds |-> NoSession]
  /\ connectionToRealtimeNote = [c \in Clients |-> NoSession]
  /\ realtimeNotes = [s \in Sessions |-> BlankNote]
  /\ controlledAwarenessIds = [c \in Clients |-> {}]
  /\ sent = <<>>
  /\ lastOp = Op("init", 0, NoSession)
  /\ emitted = <<>>
  /\ delivered = [c \in Clients |-> <<>>]

IsAttached(c, s) == s # NoSession /\ c \in Range(realtimeNotes[s].clients)

Built(s) == realtimeNotes[s].built

\* Tail of handleConnection once the RealtimeNote is known (lines 139-151):
\* index the connection, then attach it unless the socket is no longer open.
Attach(c, s, notes, registry, content) ==
  /\ connectionToRealtimeNote' = [connectionToRealtimeNote EXCEPT ![c] = s]
  /\ noteIdToRealtimeNote' = registry
  /\ reqNote' = [reqNote EXCEPT ![c] = 0]
  /\ IF readyState[c] # "open"
     THEN /\ readyState' = close(readyState, c)
          /\ realtimeNotes' = notes
     ELSE /\ readyState' = readyState
          /\ realtimeNotes' = [notes EXCEPT ![s] = connectClient(@, c)]
  /\ pc' = [pc EXCEPT ![c] = "done"]
  /\ UNCHANGED controlledAwarenessIds
  /\ sent' = <<>>
  /\ lastOp' = [Op("attach", c, s) EXCEPT !.content = content]

\* The connect failed: log, client.close(), return.
Reject(c) ==
  /\ readyState' = close(readyState, c)
  /\ pc' = [pc EXCEPT ![c] = "done"]
  /\ reqNote' = [reqNote EXCEPT ![c] = 0]
  /\ UNCHANGED <<noteIdToRealtimeNote, connectionToRealtimeNote,
                 realtimeNotes, controlledAwarenessIds>>
  /\ sent' = <<>>
  /\ lastOp' = Op("reject", c, NoSession)

\* handleConnection up to the first await: the cookie header and the
\* session cookie must be there.
handleConnection(c, hasCookie) ==
  /\ pc[c] = "new"
  /\ IF hasCookie
     THEN /\ pc' = [pc EXCEPT ![c] = "auth"]
          /\ UNCHANGED <<checks, readyState, reqNote, noteIdToRealtimeNote,
                         connectionToRealtimeNote, realtimeNotes,
                         controlledAwarenessIds>>
          /\ sent' = <<>>
          /\ lastOp' = Op("connect", c, NoSession)
     ELSE /\ checks' = [checks EXCEPT ![c] = "nocookie"]
          /\ Reject(c)

\* What the awaited lookups can answer: all fine ("ok"), one of the session,
\* user or note lookups threw ("failed"), or mayRead answered false
\* ("denied").
CheckOutcomes == {"ok", "failed", "denied"}

\* The permission test with its await dropped: a pending promise is truthy,
\* so a denied reader passes.
ChecksPassed_mayReadNotAwaited(outcome) == outcome \in {"ok", "denied"}

\* The condition under which handleConnection goes on to the RealtimeNote.
ChecksPassed(outcome) == outcome = "ok"

\* handleConnection after the session, user, note and permission lookups
\* have answered, through the map lookup of getOrCreateRealtimeNote.
handleConnectionChecked(c, outcome, n) ==
  /\ pc[c] = "auth"
  /\ checks' = [checks EXCEPT ![c] = outcome]
  /\ IF ~ChecksPassed(outcome)
     THEN Reject(c)
     ELSE IF noteIdToRealtimeNote[n] # NoSession
          THEN Attach(c, noteIdToRealtimeNote[n], realtimeNotes,
                      noteIdToRealtimeNote, 0)
          ELSE /\ pc' = [pc EXCEPT ![c] = "fetch"]
               /\ reqNote' = [reqNote EXCEPT ![c] = n]
               /\ UNCHANGED <<readyState, noteIdToRealtimeNote,
                              connectionToRealtimeNote, realtimeNotes,
                              controlledAwarenessIds>>
               /\ sent' = <<>>
               /\ lastOp' = Op("fetch", c, NoSession)

\* noteService.getNoteContent(note): the note store holds one content per
\* note, and no two notes hold the same; a content is named by its note.
getNoteContent(noteId) == noteId

\* getOrCreateRealtimeNote after noteService.getNoteContent has answered:
\* build the RealtimeNote, register it, and go on in handleConnection; when
\* the fetch threw, handleConnection catches and closes.
getOrCreateRealtimeNote(c, fetched) ==
  /\ pc[c] = "fetch"
  /\ UNCHANGED checks
  /\ IF fetched
     THEN LET initialContent == getNoteContent(reqNote[c])
          IN  Attach(c, c,
                     [realtimeNotes EXCEPT
                        ![c] = NewRealtimeNote(reqNote[c], initialContent)],
                     [noteIdToRealtimeNote EXCEPT ![reqNote[c]] = c],
                     initialContent)
     ELSE Reject(c)

\* handleDisconnect whose onDestroy leaves noteIdToRealtimeNote alone.
handleDisconnect_staysRegistered(c) ==
  LET s == connectionToRealtimeNote[c] IN
  IF s = NoSession
  THEN /\ UNCHANGED <<noteIdToRealtimeNote, connectionToRealtimeNote,
                      realtimeNotes, controlledAwarenessIds>>
       /\ lastOp' = Op("disconnect", c, NoSession)
  ELSE LET rn  == realtimeNotes[s]
           rn2 == removeClient(rn, c)
       IN  /\ realtimeNotes' = [realtimeNotes EXCEPT ![s] = rn2]
           /\ controlledAwarenessIds' =
                [controlledAwarenessIds EXCEPT ![c] = {}]
           /\ connectionToRealtimeNote' =
                IF ~hasConnections(rn2)
                THEN [connectionToRealtimeNote EXCEPT ![c] = NoSession]
                ELSE connectionToRealtimeNote
           /\ UNCHANGED noteIdToRealtimeNote
           /\ lastOp' = [Op("disconnect", c, s) EXCEPT
                           !.attached = IsAttached(c, s),
                           !.ids = controlledAwarenessIds[c]]

\* RealtimeEditorGateway.handleDisconnect(client)
handleDisconnect(c) ==
  LET s == connectionToRealtimeNote[c] IN
  IF s = NoSession
  THEN /\ UNCHANGED <<noteIdToRealtimeNote, connectionToRealtimeNote,
                      realtimeNotes, controlledAwarenessIds>>
       /\ lastOp' = Op("disconnect", c, NoSession)
  ELSE LET rn  == realtimeNotes[s]
           rn2 == removeClient(rn, c)
       IN  /\ realtimeNotes' = [realtimeNotes EXCEPT ![s] = rn2]
           \* the WebsocketConnection record leaves the clients map
           /\ controlledAwarenessIds' =
                [controlledAwarenessIds EXCEPT ![c] = {}]
           /\ IF ~hasConnections(rn2)
              THEN /\ connectionToRealtimeNote' =
                        [connectionToRealtimeNote EXCEPT ![c] = NoSession]
                   /\ noteIdToRealtimeNote' =
                        [noteIdToRealtimeNote EXCEPT ![rn.noteId] = NoSession]
              ELSE UNCHANGED <<noteIdToRealtimeNote, connectionToRealtimeNote>>
           /\ lastOp' = [Op("disconnect", c, s) EXCEPT
                           !.attached = IsAttached(c, s),
                           !.ids = controlledAwarenessIds[c]]

\* The peer starts the closing handshake, or the socket raises an error and
\* the error listener of handleConnection calls client.close().
SocketClosing(c) ==
  /\ pc[c] # "new"
  /\ readyState[c] = "open"
  /\ readyState' = close(readyState, c)
  /\ UNCHANGED <<pc, checks, reqNote, noteIdToRealtimeNote,
                 connectionToRealtimeNote, realtimeNotes,
                 controlledAwarenessIds>>
  /\ sent' = <<>>
  /\ lastOp' = Op("closing", c, connectionToRealtimeNote[c])

\* A 'close' event that is not followed by handleDisconnect.
SocketClosed_unbound(c) ==
  /\ readyState[c] = "closing"
  /\ readyState' = [readyState EXCEPT ![c] = "closed"]
  /\ UNCHANGED <<pc, checks, reqNote, noteIdToRealtimeNote,
                 connectionToRealtimeNote, realtimeNotes,
                 controlledAwarenessIds>>
  /\ sent' = <<>>
  /\ lastOp' = Op("disconnect", c, NoSession)

\* The socket emits 'close': the framework calls handleDisconnect.
SocketClosed(c) ==
  /\ readyState[c] = "closing"
  /\ readyState' = [readyState EXCEPT ![c] = "closed"]
  /\ handleDisconnect(c)
  /\ UNCHANGED <<pc, checks, reqNote>>
  /\ sent' = <<>>

\* ---- inbound frames ----------------------------------------------------
\* What a message handler hands back to the listener: the RealtimeNote and
\* the owned-id sets after it ran, the frames it sent, the document update
\* and awareness change it caused, whether it threw, and the response the
\* sync reader produced.
Result(rn, ctl, frames, update, change, err) ==
  [rn |-> rn, ctl |-> ctl, frames |-> frames, update |-> update,
   change |-> change, err |-> err, response |-> <<>>]

Nothing(rn) == Result(rn, controlledAwarenessIds, <<>>, {}, NoChange, "none")

Thrown(rn) == Result(rn, controlledAwarenessIds, <<>>, {}, NoChange, "thrown")

\* processSyncMessage without the lookup of the connection.
RealtimeNote_processSyncMessage_unchecked(rn, client, msg) ==
  IF msg.kind = "malformed"
  THEN Thrown(rn)
  ELSE LET r == WebsocketDoc_processSyncMessage(rn, client, msg)
       IN  [Result(r.rn, controlledAwarenessIds, r.frames, r.update,
                   NoChange, "none") EXCEPT !.response = r.response]

\* RealtimeNote.processSyncMessage(client, decoder)
RealtimeNote_processSyncMessage(rn, client, msg) ==
  IF client \notin Range(rn.clients)
  THEN Thrown(rn)                \* 'Received SYNC for unknown connection'
  ELSE IF msg.kind = "malformed"
  THEN Thrown(rn)                \* the sync reader fails to decode
  ELSE LET r == WebsocketDoc_processSyncMessage(rn, client, msg)
       IN  [Result(r.rn, controlledAwarenessIds, r.frames, r.update,
                   NoChange, "none") EXCEPT !.response = r.response]

\* RealtimeNote.processAwarenessMessage(client, decoder)
RealtimeNote_processAwarenessMessage(rn, client, msg) ==
  IF client \notin Range(rn.clients)
  THEN Thrown(rn)                \* 'Received AWARENESS for unknown connection'
  ELSE IF msg.malformed
  THEN Thrown(rn)                \* the awareness payload fails to decode
  ELSE LET r == WebsocketAwareness_processAwarenessMessage(
                  rn, controlledAwarenessIds, client, msg.entries)
       IN  Result(r.rn, r.ctl, r.frames, {}, r.change, "none")

\* handleMessageSync without the optional chaining: calling a method of
\* undefined throws a TypeError.
handleMessageSync_noOptionalChaining(c, msg) ==
  IF connectionToRealtimeNote[c] = NoSession
  THEN Thrown(BlankNote)
  ELSE RealtimeNote_processSyncMessage(
         realtimeNotes[connectionToRealtimeNote[c]], c, msg)

\* RealtimeEditorGateway.handleMessageSync(client, decoder)
handleMessageSync(c, msg) ==
  IF connectionToRealtimeNote[c] = NoSession
  THEN Nothing(BlankNote)
  ELSE RealtimeNote_processSyncMessage(
         realtimeNotes[connectionToRealtimeNote[c]], c, msg)

\* RealtimeEditorGateway.handleMessageAwareness(client, decoder)
handleMessageAwareness(c, msg) ==
  IF connectionToRealtimeNote[c] = NoSession
  THEN Nothing(BlankNote)
  ELSE RealtimeNote_processAwarenessMessage(
         realtimeNotes[connectionToRealtimeNote[c]], c, msg)

\* handleMessageHedgeDoc answering the frame to its sender.
handleMessageHedgeDoc_echo(c) ==
  Result(IF connectionToRealtimeNote[c] = NoSession THEN BlankNote
         ELSE realtimeNotes[connectionToRealtimeNote[c]],
         controlledAwarenessIds,
         SendTo(<<c>>, [to |-> 0, type |-> "HEDGEDOC", kind |-> "hedgedoc",
                        ops |-> {}, aw |-> {}]),
         {}, NoChange, "none")

\* RealtimeEditorGateway.handleMessageHedgeDoc(client, decoder)
handleMessageHedgeDoc(c) ==
  IF connectionToRealtimeNote[c] = NoSession
  THEN Nothing(BlankNote)
  ELSE Nothing(realtimeNotes[connectionToRealtimeNote[c]])

AwarenessMessages ==
  [malformed : {FALSE}, entries : AwarenessUpdates]
    \cup {[malformed |-> TRUE, entries |-> {}]}

\* A socket delivers frames from the connection event on, until it is closed.
Receiving(c) == pc[c] # "new" /\ readyState[c] \in {"open", "closing"}

\* The listener closing the socket of a frame whose handler threw.
Dispatched_closing(c, name, r) ==
  LET s == connectionToRealtimeNote[c] IN
  /\ realtimeNotes' = IF s = NoSession THEN realtimeNotes
                      ELSE [realtimeNotes EXCEPT ![s] = r.rn]
  /\ controlledAwarenessIds' = r.ctl
  /\ sent' = r.frames
  /\ lastOp' = [Op(name, c, s) EXCEPT
                  !.attached = IsAttached(c, s),
                  !.update = r.update,
                  !.ids = ChangedIds(r.change),
                  !.change = r.change,
                  !.response = r.response,
                  !.err = IF r.err = "thrown" THEN "caught" ELSE "none"]
  /\ readyState' = IF r.err = "thrown" THEN close(readyState, c)
                   ELSE readyState
  /\ UNCHANGED <<pc, checks, reqNote, noteIdToRealtimeNote,
                 connectionToRealtimeNote>>

\* The 'message' listener of YjsWebsocketAdapter.bindMessageHandlers around
\* the handler found for the message type: try { handler.callback(decoder) }
\* catch { log }.
Dispatched(c, name, r) ==
  LET s == connectionToRealtimeNote[c] IN
  /\ realtimeNotes' = IF s = NoSession THEN realtimeNotes
                      ELSE [realtimeNotes EXCEPT ![s] = r.rn]
  /\ controlledAwarenessIds' = r.ctl
  /\ sent' = r.frames
  /\ lastOp' = [Op(name, c, s) EXCEPT
                  !.attached = IsAttached(c, s),
                  !.update = r.update,
                  !.ids = ChangedIds(r.change),
                  !.change = r.change,
                  !.response = r.response,
                  !.err = IF r.err = "thrown" THEN "caught" ELSE "none"]
  /\ UNCHANGED <<pc, checks, readyState, reqNote, noteIdToRealtimeNote,
                 connectionToRealtimeNote>>

\* The listener when it does not reach a handler: how is "nohandler" when no
\* handler is registered for the type read (log and return), "escaped" when
\* decoding.readVarUint throws on the type tag, before the try block.
NotDispatched(c, name, how) ==
  /\ UNCHANGED <<pc, checks, readyState, reqNote, noteIdToRealtimeNote,
                 connectionToRealtimeNote, realtimeNotes,
                 controlledAwarenessIds>>
  /\ sent' = <<>>
  /\ lastOp' = [Op(name, c, connectionToRealtimeNote[c]) EXCEPT
                  !.attached = IsAttached(c, connectionToRealtimeNote[c]),
                  !.err = how]

MessageSync(c, msg) ==
  /\ Receiving(c)
  /\ Dispatched(c, "sync", handleMessageSync(c, msg))

MessageAwareness(c, msg) ==
  /\ Receiving(c)
  /\ Dispatched(c, "awareness", handleMessageAwareness(c, msg))

MessageHedgeDoc(c) ==
  /\ Receiving(c)
  /\ Dispatched(c, "hedgedoc", handleMessageHedgeDoc(c))

MessageUnknownType(c) ==
  /\ Receiving(c)
  /\ NotDispatched(c, "unknown", "nohandler")

MessageMalformedTag(c) ==
  /\ Receiving(c)
  /\ NotDispatched(c, "malformed", "escaped")

\* The handlers with the history of emissions and deliveries left aside.
Unlogged == UNCHANGED <<emitted, delivered>>

Next ==
  \/ \E c \in Clients, hasCookie \in BOOLEAN :
       handleConnection(c, hasCookie) /\ Unlogged
  \/ \E c \in Clients, outcome \in CheckOutcomes, n \in NoteIds :
       handleConnectionChecked(c, outcome, n) /\ Unlogged
  \/ \E c \in Clients, fetched \in BOOLEAN :
       getOrCreateRealtimeNote(c, fetched) /\ Unlogged
  \/ \E c \in Clients : SocketClosing(c) /\ Unlogged
  \/ \E c \in Clients : SocketClosed(c) /\ Unlogged
  \/ \E c \in Clients, msg \in SyncMessages : MessageSync(c, msg) /\ Unlogged
  \/ \E c \in Clients, msg \in AwarenessMessages :
       MessageAwareness(c, msg) /\ Unlogged
  \/ \E c \in Clients : MessageHedgeDoc(c) /\ Unlogged
  \/ \E c \in Clients : MessageUnknownType(c) /\ Unlogged
  \/ \E c \in Clients : MessageMalformedTag(c) /\ Unlogged

Spec == Init /\ [][Next]_vars

\* ---- connections that come and go --------------------------------------
\* The connect, close and disconnect handlers with SYNC frames arriving in
\* between.  A socket that is closing does emit 'close': the closing
\* handshake ends or times out, and the event is then served.
NextConnections ==
  \/ \E c \in Clients, hasCookie \in BOOLEAN :
       handleConnection(c, hasCookie) /\ Unlogged
  \/ \E c \in Clients, outcome \in CheckOutcomes, n \in NoteIds :
       handleConnectionChecked(c, outcome, n) /\ Unlogged
  \/ \E c \in Clients, fetched \in BOOLEAN :
       getOrCreateRealtimeNote(c, fetched) /\ Unlogged
  \/ \E c \in Clients : SocketClosing(c) /\ Unlogged
  \/ \E c \in Clients : SocketClosed(c) /\ Unlogged
  \/ \E c \in Clients, msg \in SyncMessages : MessageSync(c, msg) /\ Unlogged

FairSpec ==
  /\ Init
  /\ [][NextConnections]_vars
  /\ \A c \in Clients : WF_vars(SocketClosed(c) /\ Unlogged)

\* ---- the order of frames on a connection --------------------------------
\* Connects that pass every check and clients that submit single document
\* operations, with every emitted update and every frame handed to a
\* connection recorded in order.
NumOrderOps == 2     \* distinct CRDT operations submitted in SpecOrder

OrderOps == 1..NumOrderOps

OrderUpdates == [kind : {"update"}, ops : {{o} : o \in OrderOps}]

\* send on a connection putting the frame ahead of the frames queued before.
send_first(queue, frame) == <<frame>> \o queue

\* WebsocketConnection.send(content): hands the frame to the transport,
\* behind the frames handed to it before.
send(queue, frame) == Append(queue, frame)

RECURSIVE sendAll(_, _)
sendAll(queue, frames) ==
  IF frames = <<>> THEN queue
  ELSE sendAll(send(queue, Head(frames)), Tail(frames))

\* The handler that just ran, seen from outside: the update its document
\* emitted, with the connections attached at that moment other than its
\* origin, and the frames each connection was handed.
Logged ==
  /\ emitted' =
       IF lastOp'.update # {}
       THEN Append(emitted,
                   [s |-> lastOp'.s, origin |-> lastOp'.c,
                    ops |-> lastOp'.update,
                    to |-> Range(realtimeNotes'[lastOp'.s].clients)
                             \ {lastOp'.c}])
       ELSE emitted
  /\ delivered' =
       [c \in Clients |->
          sendAll(delivered[c], SelectSeq(sent', LAMBDA f : f.to = c))]

NextOrder ==
  \/ \E c \in Clients : handleConnection(c, TRUE) /\ Logged
  \/ \E c \in Clients, n \in NoteIds :
       handleConnectionChecked(c, "ok", n) /\ Logged
  \/ \E c \in Clients : getOrCreateRealtimeNote(c, TRUE) /\ Logged
  \/ \E c \in Clients : SocketClosing(c) /\ Logged
  \/ \E c \in Clients : SocketClosed(c) /\ Logged
  \/ \E c \in Clients, msg \in OrderUpdates : MessageSync(c, msg) /\ Logged

SpecOrder == Init /\ [][NextOrder]_vars

\* ---- the awareness change handler ---------------------------------------
\* handleAwarenessUpdate applied to every change and origin, on a
\* RealtimeNote that all clients are attached to.
InitAttached ==
  /\ pc = [c \in Clients |-> "done"]
  /\ checks = [c \in Clients |-> "ok"]
  /\ readyState = [c \in Clients |-> "open"]
  /\ reqNote = [c \in Clients |-> 0]
  /\ noteIdToRealtimeNote =
       [n \in NoteIds |-> IF n = 1 THEN 1 ELSE NoSession]
  /\ connectionToRealtimeNote = [c \in Clients |-> 1]
  /\ realtimeNotes =
       [s \in Sessions |->
          IF s = 1
          THEN [NewRealtimeNote(1, getNoteContent(1)) EXCEPT
                  !.clients = [i \in 1..NumClients |-> i]]
          ELSE BlankNote]
  /\ controlledAwarenessIds = [c \in Clients |-> {}]
  /\ sent = <<>>
  /\ lastOp = Op("attach", NumClients, 1)
  /\ emitted = <<>>
  /\ delivered = [c \in Clients |-> <<>>]

\* What an awareness can report to its 'update' listener: each id in at
\* most one of the three lists, and at least one id.
AwarenessChanges ==
  {chg \in [added : SUBSET AwIds, updated : SUBSET AwIds,
            removed : SUBSET AwIds] :
     /\ ChangedIds(chg) # {}
     /\ chg.added \cap chg.updated = {}
     /\ chg.added \cap chg.removed = {}
     /\ chg.updated \cap chg.removed = {}}

\* The awareness of RealtimeNote s emits 'update': the listener bound in
\* the constructor runs handleAwarenessUpdate(chg, origin).
AwarenessUpdateEvent(s, chg, origin) ==
  LET h == handleAwarenessUpdate(realtimeNotes[s], controlledAwarenessIds,
                                 chg, origin)
  IN  /\ Built(s)
      /\ controlledAwarenessIds' = h.ctl
      /\ sent' = h.frames
      /\ lastOp' = [Op("changed", origin, s) EXCEPT
                      !.attached = IsAttached(origin, s),
                      !.ids = ChangedIds(chg),
                      !.change = chg]
      /\ UNCHANGED <<pc, checks, readyState, reqNote, noteIdToRealtimeNote,
                     connectionToRealtimeNote, realtimeNotes>>

NextAwarenessHandler ==
  \/ \E c \in Clients, msg \in AwarenessMessages :
       MessageAwareness(c, msg) /\ Unlogged
  \/ \E s \in Sessions, chg \in AwarenessChanges, origin \in Clients \cup {0} :
       AwarenessUpdateEvent(s, chg, origin) /\ Unlogged

SpecAwarenessHandler == InitAttached /\ [][NextAwarenessHandler]_vars

TypeOK ==
  /\ pc \in [Clients -> {"new", "auth", "fetch", "done"}]
  /\ checks \in [Clients -> {"pending", "nocookie"} \cup CheckOutcomes]
  /\ readyState \in [Clients -> {"open", "closing", "closed"}]
  /\ noteIdToRealtimeNote \in [NoteIds -> Sessions \cup {NoSession}]
  /\ connectionToRealtimeNote \in [Clients -> Sessions \cup {NoSession}]

\* ======================================================================
\* Properties
\* ======================================================================
ClientsOf(s) == Range(realtimeNotes[s].clients)

\* Number of frames of sent that go to d and satisfy P.
Count(d, P(_)) == Len(SelectSeq(sent, LAMBDA f : f.to = d /\ P(f)))

IsUpdateFrame(f) == f.type = "SYNC" /\ f.kind = "update"

IsAwarenessFrame(f) == f.type = "AWARENESS"

\* C1: all connections attached for one noteId are attached to one and the
\* same RealtimeNote, and no second RealtimeNote for a noteId is built while
\* the first one is alive (built and not destroyed).
C1_OneSessionPerNote ==
  \A s \in Sessions, t \in Sessions :
    (Built(s) /\ Built(t) /\ s # t
       /\ realtimeNotes[s].noteId = realtimeNotes[t].noteId)
    => /\ ~(hasConnections(realtimeNotes[s]) /\ hasConnections(realtimeNotes[t]))
       /\ (realtimeNotes[s].destroyed > 0 \/ realtimeNotes[t].destroyed > 0)

\* C2: while a creation for a noteId is in progress (a connect waits for
\* getNoteContent), no other connect for that noteId starts a fetch of its
\* own: at most one fetch per noteId is in flight.
C2_OneFetchPerCreation ==
  \A n \in NoteIds :
    Cardinality({c \in Clients : pc[c] = "fetch" /\ reqNote[c] = n}) <= 1

\* No connect handler is between two awaits and no socket has a 'close'
\* event (hence a disconnect handler) outstanding.
Quiescent ==
  \A c \in Clients : pc[c] \in {"new", "done"} /\ readyState[c] # "closing"

\* C3: when no connect or disconnect handler is executing, a RealtimeNote is
\* in noteIdToRealtimeNote if and only if it has at least one connection.
C3_RegisteredIffConnected ==
  Quiescent =>
    \A s \in Sessions :
      Built(s) =>
        ((noteIdToRealtimeNote[realtimeNotes[s].noteId] = s)
           <=> hasConnections(realtimeNotes[s]))

\* C4: removing the last connection of a RealtimeNote destroys its document
\* and unregisters it; the document is destroyed exactly once, and never
\* while a connection is attached.
C4_DestroyedOnceOnLastDetach ==
  \A s \in Sessions :
    Built(s) =>
      /\ realtimeNotes[s].destroyed <= 1
      /\ (hasConnections(realtimeNotes[s]) => realtimeNotes[s].destroyed = 0)
      /\ (lastOp.op = "disconnect" /\ lastOp.s = s /\ lastOp.attached
            /\ ~hasConnections(realtimeNotes[s]))
         => (realtimeNotes[s].destroyed = 1
               /\ noteIdToRealtimeNote[realtimeNotes[s].noteId] # s)

\* C5: an inbound SYNC frame from connection C that changes the document
\* makes exactly one SYNC update frame, carrying that update, go to every
\* other connection of C's RealtimeNote, and none to C or to anyone else.
C5_UpdateToAllButOrigin ==
  (lastOp.op = "sync" /\ lastOp.update # {}) =>
    /\ lastOp.c \in ClientsOf(lastOp.s)
    /\ \A d \in Clients :
         Count(d, IsUpdateFrame) =
           IF d \in ClientsOf(lastOp.s) \ {lastOp.c} THEN 1 ELSE 0
    /\ \A i \in 1..Len(sent) :
         IsUpdateFrame(sent[i]) => sent[i].ops = lastOp.update

C5_Witness ==
  /\ lastOp.op = "sync"
  /\ lastOp.update # {}
  /\ Len(realtimeNotes[lastOp.s].clients) >= 2
  /\ \E i \in 1..Len(sent) : IsUpdateFrame(sent[i])

\* C6: an inbound AWARENESS frame from connection C that changes a set of
\* client ids makes exactly one AWARENESS frame carrying those ids go to
\* every connection of C's RealtimeNote, C included.
C6_AwarenessToAll ==
  (lastOp.op = "awareness" /\ lastOp.ids # {}) =>
    /\ lastOp.c \in ClientsOf(lastOp.s)
    /\ \A d \in Clients :
         Count(d, IsAwarenessFrame) =
           IF d \in ClientsOf(lastOp.s) THEN 1 ELSE 0
    /\ \A i \in 1..Len(sent) :
         {e.id : e \in sent[i].aw} = lastOp.ids

C6_Witness ==
  /\ lastOp.op = "awareness"
  /\ lastOp.ids # {}
  /\ Len(realtimeNotes[lastOp.s].clients) >= 2
  /\ \E i \in 1..Len(sent) : sent[i].to = lastOp.c

\* C7: when connection C, owning awareness id a whose state is present,
\* disconnects while other connections remain, the state of a is removed
\* and every remaining connection gets an AWARENESS frame reporting a as
\* removed.
C7_OwnedIdsRemovedOnDisconnect ==
  [][ (lastOp'.op = "disconnect" /\ lastOp'.attached
         /\ hasConnections(realtimeNotes'[lastOp'.s]))
      => \A a \in controlledAwarenessIds[lastOp'.c]
                    \cap realtimeNotes[lastOp'.s].states :
           /\ a \notin realtimeNotes'[lastOp'.s].states
           /\ \A d \in Range(realtimeNotes'[lastOp'.s].clients) :
                \E i \in 1..Len(sent') :
                  /\ sent'[i].to = d
                  /\ sent'[i].type = "AWARENESS"
                  /\ [id |-> a, isNull |-> TRUE] \in sent'[i].aw ]_vars

Failed(c) == checks[c] \in {"nocookie", "failed", "denied"}

\* C8: a connection is attached only when every connect check has succeeded;
\* a connection with a failed check has its transport closed, is attached to
\* no RealtimeNote, has no entry in connectionToRealtimeNote and is sent no
\* frame.
C8_AttachedOnlyAfterChecks ==
  \A c \in Clients :
    /\ (\E s \in Sessions : c \in ClientsOf(s)) => checks[c] = "ok"
    /\ Failed(c) =>
         /\ readyState[c] # "open"
         /\ connectionToRealtimeNote[c] = NoSession
         /\ \A i \in 1..Len(sent) : sent[i].to # c

C8_Witness ==
  \E c \in Clients, d \in Clients :
    /\ checks[c] = "denied"
    /\ IsAttached(d, connectionToRealtimeNote[d])
    /\ sent # <<>>

C10_UnindexedFrameDropped ==
  [][ (lastOp'.op \in {"sync", "awareness"}
         /\ connectionToRealtimeNote[lastOp'.c] = NoSession)
      => /\ lastOp'.err = "none"
         /\ sent' = <<>>
         /\ realtimeNotes' = realtimeNotes
         /\ controlledAwarenessIds' = controlledAwarenessIds
         /\ noteIdToRealtimeNote' = noteIdToRealtimeNote
         /\ connectionToRealtimeNote' = connectionToRealtimeNote ]_vars

C10_Witness ==
  /\ lastOp.op \in {"sync", "awareness"}
  /\ lastOp.s = NoSession
  /\ connectionToRealtimeNote[lastOp.c] = NoSession
  /\ pc[lastOp.c] \in {"auth", "fetch"}
  /\ \E s \in Sessions : hasConnections(realtimeNotes[s])

IsStep2Frame(f) == f.type = "SYNC" /\ f.kind = "step2"

\* C11: building a RealtimeNote puts exactly the fetched note content into
\* its document and sends no frame; a client that asks for the state (SYNC
\* step 1) always gets the initial content in the answer, and gets exactly
\* the initial content while no client operation has been applied.
C11_SeededWithFetchedContent ==
  /\ (lastOp.op = "attach" /\ lastOp.content # 0) =>
       /\ sent = <<>>
       /\ realtimeNotes[lastOp.s].initialContent = lastOp.content
       /\ realtimeNotes[lastOp.s].yDoc = {Seed(lastOp.content)}
  /\ \A i \in 1..Len(sent) :
       IsStep2Frame(sent[i]) =>
         LET rn == realtimeNotes[lastOp.s]
         IN  /\ sent[i].to = lastOp.c
             /\ Seed(rn.initialContent) \in sent[i].ops
             /\ (rn.yDoc \cap Ops = {}) =>
                  sent[i].ops = {Seed(rn.initialContent)}

C11_Witness ==
  /\ lastOp.op = "sync"
  /\ lastOp.s # NoSession
  /\ realtimeNotes[lastOp.s].initialContent \in NoteIds
  /\ \E i \in 1..Len(sent) :
       /\ IsStep2Frame(sent[i])
       /\ sent[i].ops = {Seed(getNoteContent(realtimeNotes[lastOp.s].noteId))}

\* The updates of emitted that connection c was due, in order.
DueTo(c) == SelectSeq(emitted, LAMBDA e : c \in e.to)

\* C12: every connection has been handed the update frames of exactly the
\* updates emitted while it was attached and not their origin, in the order
\* in which they were emitted.
C12_UpdatesInEmissionOrder ==
  \A c \in Clients :
    /\ Len(delivered[c]) = Len(DueTo(c))
    /\ \A k \in 1..Len(delivered[c]) :
         /\ IsUpdateFrame(delivered[c][k])
         /\ delivered[c][k].ops = DueTo(c)[k].ops

C12_Witness ==
  \E c \in Clients :
    /\ Len(delivered[c]) >= 2
    /\ delivered[c][1].ops # delivered[c][2].ops
    /\ Len(emitted) >= 2
    /\ emitted[1].s = emitted[2].s

\* C13: an inbound HEDGEDOC frame changes no RealtimeNote (document,
\* awareness, connections), no owned-id set, no gateway map and no socket,
\* raises nothing and sends no frame.
C13_HedgeDocIgnored ==
  [][ lastOp'.op = "hedgedoc"
      => /\ lastOp'.err = "none"
         /\ sent' = <<>>
         /\ realtimeNotes' = realtimeNotes
         /\ controlledAwarenessIds' = controlledAwarenessIds
         /\ noteIdToRealtimeNote' = noteIdToRealtimeNote
         /\ connectionToRealtimeNote' = connectionToRealtimeNote
         /\ readyState' = readyState ]_vars

C13_Witness ==
  /\ lastOp.op = "hedgedoc"
  /\ lastOp.attached
  /\ Len(realtimeNotes[lastOp.s].clients) >= 2
  /\ realtimeNotes[lastOp.s].yDoc \cap Ops # {}

\* C14: a connection that has been disconnected is in no RealtimeNote's
\* clients map and is no key of connectionToRealtimeNote.
C14_DisconnectedNotIndexed ==
  \A c \in Clients :
    readyState[c] = "closed" =>
      /\ connectionToRealtimeNote[c] = NoSession
      /\ \A s \in Sessions : c \notin ClientsOf(s)

\* C15: a RealtimeNote whose document has been destroyed is in
\* noteIdToRealtimeNote under no note id and has no connection, from the
\* very step that destroyed it; no connect is handed it afterwards, so a
\* connect for its note id builds a new RealtimeNote.
C15_DestroyedNeverReused ==
  /\ [](\A s \in Sessions :
          realtimeNotes[s].destroyed > 0 =>
            /\ \A n \in NoteIds : noteIdToRealtimeNote[n] # s
            /\ ~hasConnections(realtimeNotes[s]))
  /\ [][ /\ lastOp'.op = "attach" => realtimeNotes[lastOp'.s].destroyed = 0
         /\ \A s \in Sessions :
              realtimeNotes[s].destroyed > 0 =>
                realtimeNotes'[s].clients = realtimeNotes[s].clients ]_vars

C15_Witness ==
  /\ lastOp.op = "attach"
  /\ lastOp.content # 0
  /\ IsAttached(lastOp.c, lastOp.s)
  /\ \E s \in Sessions :
       /\ s # lastOp.s
       /\ realtimeNotes[s].destroyed > 0
       /\ realtimeNotes[s].noteId = realtimeNotes[lastOp.s].noteId

\* C16: no exception raised while an inbound frame is dispatched or handled
\* leaves the message listener.
C16_NoExceptionEscapes == lastOp.err # "escaped"

\* C18: a SYNC or AWARENESS frame of a connection that is not attached to
\* the RealtimeNote it is routed to changes no document, awareness or
\* owned-id set and sends no frame.
C18_FramesOnlyFromAttached ==
  [][ (lastOp'.op \in {"sync", "awareness"} /\ ~lastOp'.attached)
      => /\ sent' = <<>>
         /\ realtimeNotes' = realtimeNotes
         /\ controlledAwarenessIds' = controlledAwarenessIds ]_vars

C18_Witness ==
  /\ lastOp.op \in {"sync", "awareness"}
  /\ lastOp.s # NoSession
  /\ ~lastOp.attached
  /\ lastOp.err = "caught"
  /\ hasConnections(realtimeNotes[lastOp.s])

\* The awareness ids a sequence of frames reports as removed.
RemovedIn(frames) ==
  {e.id : e \in {x \in UNION {frames[i].aw : i \in 1..Len(frames)} : x.isNull}}

\* C20: the disconnect of an attached connection C publishes the removal of
\* exactly the awareness ids C owns.
C20_PublishedRemovalsAreOwnedIds ==
  [][ (lastOp'.op = "disconnect" /\ lastOp'.attached)
      => RemovedIn(sent') = controlledAwarenessIds[lastOp'.c] ]_vars

\* C17: an attached connection whose socket is closing (the peer closed it,
\* or the error listener did after a socket error) is eventually closed and
\* in no RealtimeNote's clients map; and a disconnect that takes the last
\* connection of a RealtimeNote leaves it destroyed and out of
\* noteIdToRealtimeNote.
C17_ClosedEventuallyDetached ==
  /\ \A c \in Clients :
       ((\E s \in Sessions : IsAttached(c, s)) /\ readyState[c] = "closing")
         ~> (readyState[c] = "closed" /\ \A s \in Sessions : ~IsAttached(c, s))
  /\ [](\A s \in Sessions :
          (lastOp.op = "disconnect" /\ lastOp.attached /\ lastOp.s = s
             /\ ~hasConnections(realtimeNotes[s]))
          => /\ realtimeNotes[s].destroyed > 0
             /\ \A n \in NoteIds : noteIdToRealtimeNote[n] # s)

C17_Witness ==
  /\ lastOp.op = "disconnect"
  /\ lastOp.attached
  /\ readyState[lastOp.c] = "closed"
  /\ ~IsAttached(lastOp.c, lastOp.s)
  /\ realtimeNotes[lastOp.s].destroyed > 0

\* C19: when the awareness reports a change, the owned-id set of the origin
\* connection grows by exactly the ids reported as added or removed (an id
\* reported only as updated does not enter it), and no other connection's
\* set changes; with a null origin no set changes.
C19_OwnsAddedAndRemoved ==
  [][ lastOp'.op \in {"awareness", "changed"}
      => \A d \in Clients :
           controlledAwarenessIds'[d] =
             IF d = lastOp'.c
             THEN controlledAwarenessIds[d]
                    \cup lastOp'.change.added \cup lastOp'.change.removed
             ELSE controlledAwarenessIds[d] ]_vars

C19_Witness ==
  /\ lastOp.op = "awareness"
  /\ lastOp.change.added # {}
  /\ lastOp.change.added \subseteq controlledAwarenessIds[lastOp.c]
  /\ \E d \in Clients :
       d # lastOp.c /\ lastOp.change.added \cap controlledAwarenessIds[d] = {}

\* A SYNC frame that is not a fanned-out update: the answer of the sync
\* reader.
IsResponseFrame(f) == f.type = "SYNC" /\ f.kind # "update"

\* C21: when the sync reader produces a response for a SYNC frame of
\* connection C, exactly one response frame, carrying that response, is sent
\* and it goes to C; when the reader produces none, no response frame is
\* sent to anyone.
C21_ResponseToSenderOnly ==
  /\ lastOp.op = "sync" =>
       /\ Len(lastOp.response) <= 1
       /\ \A d \in Clients :
            Count(d, IsResponseFrame) =
              IF d = lastOp.c /\ lastOp.response # <<>> THEN 1 ELSE 0
       /\ \A i \in 1..Len(sent) :
            IsResponseFrame(sent[i]) =>
              sent[i] = [lastOp.response[1] EXCEPT !.to = lastOp.c]
  /\ lastOp.op # "sync" =>
       \A i \in 1..Len(sent) : ~IsResponseFrame(sent[i])

C21_Witness ==
  /\ lastOp.op = "sync"
  /\ lastOp.response # <<>>
  /\ Len(realtimeNotes[lastOp.s].clients) >= 2
  /\ Count(lastOp.c, IsResponseFrame) = 1

\* C22: a disconnect that takes an entry out of noteIdToRealtimeNote takes
\* out the entry of the RealtimeNote it destroyed, never that of another
\* RealtimeNote that still has connections.
C22_UnregistersOnlyItself ==
  [][ lastOp'.op = "disconnect"
      => \A n \in NoteIds :
           (noteIdToRealtimeNote[n] # NoSession
              /\ noteIdToRealtimeNote'[n] # noteIdToRealtimeNote[n])
           => /\ noteIdToRealtimeNote[n] = lastOp'.s
              /\ ~hasConnections(realtimeNotes'[noteIdToRealtimeNote[n]]) ]_vars

\* C23: a connect that ends without the connection attached leaves no entry
\* for the connection in connectionToRealtimeNote and no RealtimeNote that
\* it built in noteIdToRealtimeNote.
C23_FailedConnectLeavesNoTrace ==
  (lastOp.op \in {"attach", "reject"}
     /\ ~IsAttached(lastOp.c, lastOp.s))
  => /\ connectionToRealtimeNote[lastOp.c] = NoSession
     /\ \A n \in NoteIds : noteIdToRealtimeNote[n] # lastOp.c

\* The RealtimeNotes connection c is attached to.
SessionsOf(c) == {s \in Sessions : IsAttached(c, s)}

\* C24: a connection is attached to at most one RealtimeNote, and every
\* frame a SYNC or AWARENESS handler sends goes to a connection attached to
\* the RealtimeNote of the frame that caused it, hence to none that is
\* attached for another note.
C24_SessionsIsolated ==
  /\ \A c \in Clients : Cardinality(SessionsOf(c)) <= 1
  /\ \A i \in 1..Len(sent) :
       /\ SessionsOf(sent[i].to) = {lastOp.s}
       /\ \A s \in Sessions :
            realtimeNotes[s].noteId # realtimeNotes[lastOp.s].noteId
              => ~IsAttached(sent[i].to, s)

C24_Witness ==
  /\ lastOp.op \in {"sync", "awareness"}
  /\ sent # <<>>
  /\ \E c \in Clients, s \in Sessions :
       /\ IsAttached(c, s)
       /\ s # lastOp.s
       /\ realtimeNotes[s].noteId # realtimeNotes[lastOp.s].noteId
       /\ realtimeNotes[s].yDoc # realtimeNotes[lastOp.s].yDoc

\* C25: no frame goes to a connection that has been disconnected or is in no
\* clients map: what a RealtimeNote sends, it sends to connections that are
\* attached to it at that moment.
C25_NoFrameAfterRemoval ==
  \A c \in Clients :
    (readyState[c] = "closed" \/ SessionsOf(c) = {})
      => \A i \in 1..Len(sent) : sent[i].to # c

C25_Witness ==
  /\ sent # <<>>
  /\ lastOp.s # NoSession
  /\ \E c \in Clients :
       /\ readyState[c] = "closed"
       /\ checks[c] = "ok"
       /\ connectionToRealtimeNote[c] = lastOp.s
       /\ ~IsAttached(c, lastOp.s)

====
